---- MODULE Spec2Model ----
(***************************************************************************)
(* Model of the AI-client adapter of the bingo generator (src/index.tsx).  *)
(*                                                                         *)
(* The file holds two variants of the adapter: the key-validating one      *)
(* (lines 18-206, called "strict" here) and the one with a module-level    *)
(* client (lines 207-376, called "legacy" here).                           *)
(*                                                                         *)
(* JavaScript strings that the code inspects are modelled as sequences of  *)
(* tokens; a token stands for a literal the code's regular expressions or  *)
(* substring tests look for, or for a character class:                     *)
(*   - API keys:   "YOUR_API_KEY", "undefined", "k" (any other text)       *)
(*   - data URLs:  "data:", "image/", ";base64,", "A" (a \w character),    *)
(*                 "+" (a character that is neither \w nor a line          *)
(*                 terminator), "\n" (a line terminator)                   *)
(*   - reply text: a code fence, the word json, whitespace, one serialized *)
(*                 JSON document, or other (non-JSON) text                 *)
(*   - messages:   pieces of text, one of which may be "API Key"           *)
(***************************************************************************)
EXTENDS Integers, Sequences, FiniteSets, TLC

VARIABLES key, client, dataUrl, parsed, inv, remote, strict, legacy

vars == <<key, client, dataUrl, parsed, inv, remote, strict, legacy>>

(***************************************************************************)
(* Bounds of the model.                                                    *)
(***************************************************************************)
MaxKeyLen == 4
MaxUrlLen == 5
MaxItems == 2

Min(S) == CHOOSE x \in S : \A y \in S : x <= y
Max(S) == CHOOSE x \in S : \A y \in S : x >= y
Drop(s, n) == SubSeq(s, n + 1, Len(s))
SeqsUpTo(S, n) == UNION {[1..m -> S] : m \in 0..n}

(***************************************************************************)
(* JavaScript values.                                                      *)
(***************************************************************************)
Undef == [k |-> "undefined"]
Null == [k |-> "null"]
Str(s) == [k |-> "str", s |-> s]
Num(n) == [k |-> "num", n |-> n]
Bool(b) == [k |-> "bool", b |-> b]
Obj(f) == [k |-> "obj", f |-> f]
Arr(a) == [k |-> "arr", a |-> a]
Err(name, message) == [k |-> "error", name |-> name, message |-> message]

\* JavaScript truthiness, as used by ||, !x and if (x).
Truthy(v) ==
    CASE v.k = "undefined" -> FALSE
      [] v.k = "null" -> FALSE
      [] v.k = "str" -> v.s # ""
      [] v.k = "num" -> v.n # 0
      [] v.k = "bool" -> v.b
      [] OTHER -> TRUE

\* v.name: a property read.  Reading a property of null or undefined throws.
CanRead(v) == v.k \notin {"undefined", "null"}
Get(v, name) ==
    IF v.k = "obj" /\ name \in DOMAIN v.f THEN v.f[name] ELSE Undef

\* a || b
OrElse(a, b) == IF Truthy(a) THEN a ELSE b

Return(v) == [kind |-> "return", value |-> v]
Throw(e) == [kind |-> "throw", error |-> e]
NoOutcome == [kind |-> "none"]

(***************************************************************************)
(* Message texts.                                                          *)
(***************************************************************************)
ApiKeyText == "API Key"
Includes(msg, piece) == \E i \in 1..Len(msg) : msg[i] = piece
ConfigMsg == <<ApiKeyText, " ontbreekt of is ongeldig. Controleer Vercel instellingen.">>
ConfigError == Err("Error", ConfigMsg)
TypeErrorValue == Err("TypeError", <<"Cannot read properties">>)

(***************************************************************************)
(* getAIClient (strict variant): process.env.API_KEY and its validation.   *)
(***************************************************************************)
Placeholder == "YOUR_API_KEY"
KeyTokens == {Placeholder, "undefined", "k"}
UnsetKey == [defined |-> FALSE, s |-> <<>>]
KeyOf(s) == [defined |-> TRUE, s |-> s]
Keys == {UnsetKey} \cup {KeyOf(s) : s \in SeqsUpTo(KeyTokens, MaxKeyLen)}

\* !key || key.includes("YOUR_API_KEY") || key === "undefined"
KeyRejectedNoUndefinedTest(k) ==
    \/ ~k.defined
    \/ k.s = <<>>
    \/ \E i \in 1..Len(k.s) : k.s[i] = Placeholder
KeyRejected(k) ==
    \/ ~k.defined
    \/ k.s = <<>>
    \/ \E i \in 1..Len(k.s) : k.s[i] = Placeholder
    \/ k.s = <<"undefined">>

getAIClientUnvalidated(k) == Return([apiKey |-> k])
getAIClient(k) ==
    IF KeyRejected(k) THEN Throw(ConfigError) ELSE Return([apiKey |-> k])

(***************************************************************************)
(* cleanJSON and JSON.parse on reply texts.                                *)
(***************************************************************************)
Fence == [t |-> "fence"]
JsonWord == [t |-> "json"]
Ws == [t |-> "ws"]
Doc(v) == [t |-> "doc", v |-> v]
Junk(w) == [t |-> "junk", w |-> w]

LeadWs(s) ==
    LET stop == {i \in 1..Len(s) : s[i].t # "ws"}
    IN  IF stop = {} THEN Len(s) ELSE Min(stop) - 1
TrailWs(s) ==
    LET stop == {i \in 1..Len(s) : s[i].t # "ws"}
    IN  IF stop = {} THEN Len(s) ELSE Len(s) - Max(stop)
DropLeadWs(s) == Drop(s, LeadWs(s))
DropTrailWs(s) == SubSeq(s, 1, Len(s) - TrailWs(s))
Trim(s) == IF LeadWs(s) = Len(s) THEN <<>> ELSE DropTrailWs(DropLeadWs(s))

\* .replace(/^FENCEjson\s*/, ""), FENCE being three backquotes
StripOpenJson(s) ==
    IF Len(s) >= 2 /\ s[1].t = "fence" /\ s[2].t = "json"
    THEN DropLeadWs(Drop(s, 2))
    ELSE s
\* .replace(/^FENCE\s*/, "")
StripOpen(s) ==
    IF Len(s) >= 1 /\ s[1].t = "fence" THEN DropLeadWs(Drop(s, 1)) ELSE s
\* .replace(/\s*FENCE$/, "")
StripClose(s) ==
    IF Len(s) >= 1 /\ s[Len(s)].t = "fence"
    THEN DropTrailWs(SubSeq(s, 1, Len(s) - 1))
    ELSE s

cleanJSONNoFences(text) == IF text = <<>> THEN <<>> ELSE Trim(text)
cleanJSON(text) ==
    IF text = <<>> THEN <<>> ELSE Trim(StripClose(StripOpen(StripOpenJson(text))))

\* The text of a token, as a piece of a message that quotes it.
Render(tok) ==
    CASE tok.t = "fence" -> "<fence>"
      [] tok.t = "json" -> "json"
      [] tok.t = "ws" -> " "
      [] tok.t = "junk" -> tok.w
      [] OTHER -> "{...}"

\* JSON.parse(text): surrounding whitespace is allowed, the rest must be one
\* JSON document.  The message of the SyntaxError quotes the source text or not,
\* depending on the engine (quote).
JsonParses(text) == Len(Trim(text)) = 1 /\ Trim(text)[1].t = "doc"
SyntaxErrorOf(text, quote) ==
    Err("SyntaxError",
        IF quote
        THEN <<"Unexpected token, ">> \o [i \in 1..Len(text) |-> Render(text[i])]
                 \o <<" is not valid JSON">>
        ELSE <<"JSON.parse: unexpected character">>)
JSONparse(text, quote) ==
    IF JsonParses(text)
    THEN Return(Trim(text)[1].v)
    ELSE Throw(SyntaxErrorOf(text, quote))

(***************************************************************************)
(* parseDataUrl.                                                           *)
(***************************************************************************)
DataScheme == "data:"
ImageSlash == "image/"
Base64Mark == ";base64,"
WordChar == "A"
OtherChar == "+"
LineBreak == "\n"
UrlTokens == {DataScheme, ImageSlash, Base64Mark, WordChar, OtherChar, LineBreak}
\* "jpeg" is a \w word the inputs are not drawn from: the fallback mime type
\* differs from every mime type an input carries.
WordTokens == {WordChar, "jpeg"}
JpegMime == <<ImageSlash, "jpeg">>

\* .+: one or more characters, none a line terminator
DotPlus(s) == Len(s) >= 1 /\ \A i \in 1..Len(s) : s[i] # LineBreak

\* the positions of ";base64," at which /^data:(.+);base64,(.+)$/ can split s
Splits(s) ==
    {k \in 3..(Len(s) - 1) :
        /\ s[1] = DataScheme
        /\ s[k] = Base64Mark
        /\ DotPlus(SubSeq(s, 2, k - 1))
        /\ DotPlus(SubSeq(s, k + 1, Len(s)))}

\* .replace(/^data:image\/\w+;base64,/, "")
StripImagePrefix(s) ==
    LET ends == {k \in 4..Len(s) :
                    /\ s[1] = DataScheme
                    /\ s[2] = ImageSlash
                    /\ s[k] = Base64Mark
                    /\ \A i \in 3..(k - 1) : s[i] \in WordTokens}
    IN  IF ends = {} THEN s ELSE Drop(s, Min(ends))

parseDataUrlLazy(s) ==
    IF Splits(s) # {}
    THEN [mimeType |-> SubSeq(s, 2, Min(Splits(s)) - 1),
          data |-> Drop(s, Min(Splits(s)))]
    ELSE [mimeType |-> JpegMime, data |-> StripImagePrefix(s)]
\* the first group is greedy: it ends at the last possible ";base64,"
parseDataUrl(s) ==
    IF Splits(s) # {}
    THEN [mimeType |-> SubSeq(s, 2, Max(Splits(s)) - 1),
          data |-> Drop(s, Max(Splits(s)))]
    ELSE [mimeType |-> JpegMime, data |-> StripImagePrefix(s)]

(***************************************************************************)
(* Inputs of the two entry points and the replies of the remote service.   *)
(***************************************************************************)
NoImage == [present |-> FALSE, url |-> <<>>]
Image(url) == [present |-> TRUE, url |-> url]
\* if (imageBase64): null, undefined and "" are falsy
HasImage(image) == image.present /\ image.url # <<>>

PngUrl == <<DataScheme, ImageSlash, WordChar, Base64Mark, WordChar, WordChar>>
RawBase64 == <<WordChar, OtherChar, WordChar>>

MathContext == Obj([subject |-> Str("Wiskunde"), isMath |-> Bool(TRUE)])
TextContext == Obj([subject |-> Str("Geschiedenis"), isMath |-> Bool(FALSE)])
Fallback == Obj([subject |-> Str("Algemeen"), isMath |-> Bool(FALSE)])
Sentinel == Str("Fout")

NoInv == [fn |-> "none"]
DetectInputs ==
    {[fn |-> "detectSubject", topic |-> "", image |-> NoImage],
     [fn |-> "detectSubject", topic |-> "Breuken", image |-> Image(PngUrl)],
     [fn |-> "detectSubject", topic |-> "", image |-> Image(RawBase64)]}
GenerateInputs ==
    {[fn |-> "generateBingoItems", context |-> MathContext, topic |-> "Breuken",
      count |-> n, image |-> NoImage, mode |-> "similar"] : n \in 0..MaxItems}
    \cup
    {[fn |-> "generateBingoItems", context |-> TextContext, topic |-> "",
      count |-> 1, image |-> Image(PngUrl), mode |-> m] : m \in {"similar", "exact"}}

\* What the remote call does: it rejects with a value, or resolves with a
\* response whose text is undefined or a string.
Rejects(e) == [ok |-> FALSE, err |-> e]
Resolves(text) == [ok |-> TRUE, hasText |-> TRUE, text |-> text]
ResolvesNoText == [ok |-> TRUE, hasText |-> FALSE, text |-> <<>>]
NoRemote == [ok |-> FALSE, err |-> Undef, unset |-> TRUE]

RejectValues ==
    {Err("Error", <<"fetch failed">>),
     Err("Error", <<ApiKeyText, " not valid. Please pass a valid API key.">>),
     Str("timeout"),
     Undef}

\* the shapes a reply text takes around its body b (a text)
Bare(b) == b
Padded(b) == <<Ws>> \o b \o <<Ws>>
FencedJson(b) == <<Fence, JsonWord, Ws>> \o b \o <<Ws, Fence>>
FencedJsonTight(b) == <<Fence, JsonWord>> \o b \o <<Fence>>
FencedPlain(b) == <<Fence, Ws>> \o b \o <<Ws, Fence>>
FencedThenNewline(b) == <<Fence, JsonWord, Ws>> \o b \o <<Ws, Fence, Ws>>
NewlineThenFenced(b) == <<Ws, Fence, JsonWord, Ws>> \o b \o <<Ws, Fence>>
OpenFenceOnly(b) == <<Fence, JsonWord, Ws>> \o b
CloseFenceOnly(b) == b \o <<Ws, Fence>>
AllShapes(b) ==
    {Bare(b), Padded(b), FencedJson(b), FencedJsonTight(b), FencedPlain(b),
     FencedThenNewline(b), NewlineThenFenced(b), OpenFenceOnly(b), CloseFenceOnly(b)}
MainShapes(b) == {Bare(b), FencedJson(b), FencedPlain(b)}
EmptyTexts == {<<>>, <<Ws>>, <<Fence>>, <<Fence, JsonWord, Ws, Fence>>}

SubjectDocs == {MathContext, TextContext, Fallback}
JunkBodies ==
    {<<Junk("Sorry")>>, <<Junk("Your "), Junk(ApiKeyText), Junk(" is invalid")>>}
DetectBodies == {<<Doc(d)>> : d \in SubjectDocs \cup {Null}} \cup JunkBodies
DetectTexts == EmptyTexts \cup UNION {AllShapes(b) : b \in DetectBodies}

ItemSamples ==
    {Obj([problem |-> Str("2+2"), answer |-> Str("4")]),
     Obj([problem |-> Str("3x3"), answer |-> Str("9")]),
     Obj([problem |-> Str("5-1")]),
     Obj([answer |-> Str("7")]),
     Obj([problem |-> Str(""), answer |-> Str("0")]),
     Null}
ItemsDocs == {Obj([items |-> Arr(a)]) : a \in SeqsUpTo(ItemSamples, MaxItems)}
OddDocs == {Obj(<<>>), Obj([items |-> Num(5)]), Null}
GenerateBodies == {<<Doc(d)>> : d \in ItemsDocs \cup OddDocs} \cup JunkBodies
GenerateTexts == EmptyTexts \cup UNION {MainShapes(b) : b \in GenerateBodies}

Scripts(texts) ==
    {Rejects(e) : e \in RejectValues} \cup {ResolvesNoText}
        \cup {Resolves(t) : t \in texts}

KeySamples ==
    {UnsetKey, KeyOf(<<>>), KeyOf(<<Placeholder>>), KeyOf(<<"undefined">>),
     KeyOf(<<"k">>)}

(***************************************************************************)
(* The request an invocation sends.                                        *)
(***************************************************************************)
NoRequest == [sent |-> FALSE]
\* new GoogleGenAI({ apiKey: key })
ClientOf(k) == [apiKey |-> k]
ImageParts(image) ==
    IF HasImage(image) THEN <<[inlineData |-> parseDataUrl(image.url)]>> ELSE <<>>

DetectRequest(i, c) ==
    [sent |-> TRUE,
     client |-> c,
     model |-> "gemini-2.5-flash",
     parts |-> ImageParts(i.image) \o <<[text |-> [kind |-> "detect", topic |-> i.topic]]>>]

UserPrompt(i) ==
    IF HasImage(i.image) /\ i.mode = "exact"
    THEN [kind |-> "exact", count |-> i.count]
    ELSE IF HasImage(i.image) /\ i.mode = "similar"
    THEN [kind |-> "similar", count |-> i.count]
    ELSE [kind |-> "topic", topic |-> i.topic, count |-> i.count]

GenerateRequest(i, c) ==
    [sent |-> TRUE,
     client |-> c,
     model |-> "gemini-2.5-flash",
     system |-> [subject |-> Get(i.context, "subject"),
                 notation |-> IF Truthy(Get(i.context, "isMath"))
                              THEN "WISKUNDE" ELSE "TEKST",
                 count |-> i.count],
     parts |-> ImageParts(i.image) \o <<[text |-> UserPrompt(i)]>>]

(***************************************************************************)
(* What runs once the awaited remote call has settled, strict variant.     *)
(***************************************************************************)
\* response.text || ""
TextOrEmpty(r) == IF r.hasText THEN r.text ELSE <<>>

\* error.message.includes("API Key"): only an Error carries a message; for
\* any other thrown value the test itself throws a TypeError.
HasMessage(e) == e.k = "error"

\* the try block of detectSubject, lines 75-95
DetectTry(r, quote) ==
    IF ~r.ok THEN Throw(r.err)
    ELSE LET cleanText == cleanJSON(TextOrEmpty(r))
         IN  IF cleanText # <<>>
             THEN JSONparse(cleanText, quote)
             ELSE Throw(Err("Error", <<"Geen antwoord van AI (Leeg)">>))

\* the catch block of detectSubject, lines 97-102
DetectCatch(e) ==
    IF ~HasMessage(e) THEN Throw(TypeErrorValue)
    ELSE IF Includes(e.message, ApiKeyText) THEN Throw(e)
    ELSE Return(Fallback)

detectSubject(r, quote) ==
    LET t == DetectTry(r, quote)
    IN  IF t.kind = "throw" THEN DetectCatch(t.error) ELSE t

\* lines 195-199: itemsArray.map(...)
ItemId(index) == Str("item-" \o ToString(index))
BingoItemOfShifted(item, index) ==
    Obj([id |-> ItemId(index + 1),
         problem |-> OrElse(Get(item, "problem"), Sentinel),
         answer |-> OrElse(Get(item, "answer"), Sentinel)])
BingoItemOfNoRepair(item, index) ==
    Obj([id |-> ItemId(index),
         problem |-> Get(item, "problem"),
         answer |-> Get(item, "answer")])
BingoItemOf(item, index) ==
    Obj([id |-> ItemId(index),
         problem |-> OrElse(Get(item, "problem"), Sentinel),
         answer |-> OrElse(Get(item, "answer"), Sentinel)])

MapItems(itemsArray) ==
    IF itemsArray.k # "arr" THEN Throw(TypeErrorValue)
    ELSE IF \E j \in 1..Len(itemsArray.a) : ~CanRead(itemsArray.a[j])
    THEN Throw(TypeErrorValue)
    ELSE Return(Arr([j \in 1..Len(itemsArray.a) |->
                        BingoItemOf(itemsArray.a[j], j - 1)]))

\* lines 192-199: from the parsed reply to the items
ItemsOfData(data) ==
    IF ~CanRead(data) THEN Throw(TypeErrorValue)
    ELSE MapItems(OrElse(Get(data, "items"), Arr(<<>>)))

\* the try block of generateBingoItems, lines 164-199
GenerateTry(r, quote) ==
    IF ~r.ok THEN Throw(r.err)
    ELSE LET cleanText == cleanJSON(TextOrEmpty(r))
         IN  IF cleanText = <<>>
             THEN Throw(Err("Error", <<"Geen tekst ontvangen van AI">>))
             ELSE LET data == JSONparse(cleanText, quote)
                  IN  IF data.kind = "throw" THEN data ELSE ItemsOfData(data.value)

\* the catch block of generateBingoItems, lines 201-205
GenerationPrefix == "Kon geen items genereren: "
GenerateCatch(e) ==
    IF ~HasMessage(e) THEN Throw(TypeErrorValue)
    ELSE IF Includes(e.message, ApiKeyText) THEN Throw(e)
    ELSE Throw(Err("Error", <<GenerationPrefix>> \o e.message))

generateBingoItems(r, quote) ==
    LET t == GenerateTry(r, quote)
    IN  IF t.kind = "throw" THEN GenerateCatch(t.error) ELSE t

(***************************************************************************)
(* The same, legacy variant (lines 249-275 and 335-375).                   *)
(***************************************************************************)
LegacyGenerationMsg == <<"Kon geen items genereren. Probeer het opnieuw.">>

LegacyDetectTry(r, quote) ==
    IF ~r.ok THEN Throw(r.err)
    ELSE IF r.hasText /\ r.text # <<>>
    THEN JSONparse(r.text, quote)
    ELSE Throw(Err("Error", <<"Empty response from AI">>))

Legacy_detectSubjectGeneral(r, quote) ==
    LET t == LegacyDetectTry(r, quote)
    IN  IF t.kind = "throw"
        THEN Return(Obj([subject |-> Str("General"), isMath |-> Bool(FALSE)]))
        ELSE t
Legacy_detectSubject(r, quote) ==
    LET t == LegacyDetectTry(r, quote)
    IN  IF t.kind = "throw" THEN Return(Fallback) ELSE t

LegacyGenerateTry(r, quote) ==
    IF ~r.ok THEN Throw(r.err)
    ELSE IF ~(r.hasText /\ r.text # <<>>)
    THEN Throw(Err("Error", <<"No text response">>))
    ELSE LET data == JSONparse(r.text, quote)
         IN  IF data.kind = "throw" THEN data ELSE ItemsOfData(data.value)

Legacy_generateBingoItems(r, quote) ==
    LET t == LegacyGenerateTry(r, quote)
    IN  IF t.kind = "throw" THEN Throw(Err("Error", LegacyGenerationMsg)) ELSE t

(***************************************************************************)
(* The state machine.  One invocation at a time is arranged (its inputs    *)
(* and what the remote service will do) and run through the strict and     *)
(* then the legacy variant; an invocation runs up to its await, and        *)
(* resumes when the remote call has settled.                               *)
(***************************************************************************)
Idle == [pc |-> "idle", calls |-> 0, request |-> NoRequest, outcome |-> NoOutcome]
Called == [Idle EXCEPT !.pc = "called"]
NotParsed == [done |-> FALSE]

\* lines 57 and 115 (getAIClient, outside the try block) up to the await
StrictBegin(p, k, req) ==
    LET c == getAIClient(k)
    IN  IF c.kind = "throw"
        THEN [p EXCEPT !.pc = "done", !.outcome = c]
        ELSE [p EXCEPT !.pc = "awaiting", !.calls = @ + 1, !.request = req]

\* the legacy variant uses the module-level client (line 211)
LegacyBegin(p, req) ==
    [p EXCEPT !.pc = "awaiting", !.calls = @ + 1, !.request = req]

End(p, outcome) == [p EXCEPT !.pc = "done", !.outcome = outcome]

ArrangeDetect ==
    /\ inv = NoInv
    /\ \E i \in DetectInputs, sc \in Scripts(DetectTexts) :
          /\ inv' = i
          /\ remote' = sc
    /\ strict' = Called
    /\ legacy' = Called
    /\ UNCHANGED <<key, client, dataUrl, parsed>>

ArrangeGenerate ==
    /\ inv = NoInv
    /\ \E i \in GenerateInputs, sc \in Scripts(GenerateTexts) :
          /\ inv' = i
          /\ remote' = sc
    /\ strict' = Called
    /\ legacy' = Called
    /\ UNCHANGED <<key, client, dataUrl, parsed>>

StrictDetectStart ==
    /\ inv.fn = "detectSubject"
    /\ strict.pc = "called"
    /\ strict' = StrictBegin(strict, key, DetectRequest(inv, ClientOf(key)))
    /\ UNCHANGED <<key, client, dataUrl, parsed, inv, remote, legacy>>

StrictDetectSettle ==
    /\ inv.fn = "detectSubject"
    /\ strict.pc = "awaiting"
    /\ \E quote \in BOOLEAN : strict' = End(strict, detectSubject(remote, quote))
    /\ UNCHANGED <<key, client, dataUrl, parsed, inv, remote, legacy>>

StrictGenerateStart ==
    /\ inv.fn = "generateBingoItems"
    /\ strict.pc = "called"
    /\ strict' = StrictBegin(strict, key, GenerateRequest(inv, ClientOf(key)))
    /\ UNCHANGED <<key, client, dataUrl, parsed, inv, remote, legacy>>

StrictGenerateSettle ==
    /\ inv.fn = "generateBingoItems"
    /\ strict.pc = "awaiting"
    /\ \E quote \in BOOLEAN : strict' = End(strict, generateBingoItems(remote, quote))
    /\ UNCHANGED <<key, client, dataUrl, parsed, inv, remote, legacy>>

LegacyDetectStart ==
    /\ inv.fn = "detectSubject"
    /\ strict.pc = "done"
    /\ legacy.pc = "called"
    /\ legacy' = LegacyBegin(legacy, DetectRequest(inv, ClientOf(key)))
    /\ UNCHANGED <<key, client, dataUrl, parsed, inv, remote, strict>>

LegacyDetectSettle ==
    /\ inv.fn = "detectSubject"
    /\ legacy.pc = "awaiting"
    /\ \E quote \in BOOLEAN :
          legacy' = End(legacy, Legacy_detectSubject(remote, quote))
    /\ UNCHANGED <<key, client, dataUrl, parsed, inv, remote, strict>>

LegacyGenerateStart ==
    /\ inv.fn = "generateBingoItems"
    /\ strict.pc = "done"
    /\ legacy.pc = "called"
    /\ legacy' = LegacyBegin(legacy, GenerateRequest(inv, ClientOf(key)))
    /\ UNCHANGED <<key, client, dataUrl, parsed, inv, remote, strict>>

LegacyGenerateSettle ==
    /\ inv.fn = "generateBingoItems"
    /\ legacy.pc = "awaiting"
    /\ \E quote \in BOOLEAN :
          legacy' = End(legacy, Legacy_generateBingoItems(remote, quote))
    /\ UNCHANGED <<key, client, dataUrl, parsed, inv, remote, strict>>

Finish ==
    /\ strict.pc = "done"
    /\ legacy.pc = "done"
    /\ inv' = NoInv
    /\ remote' = NoRemote
    /\ strict' = Idle
    /\ legacy' = Idle
    /\ UNCHANGED <<key, client, dataUrl, parsed>>

Init ==
    /\ key \in KeySamples
    /\ client = NoOutcome
    /\ dataUrl = <<>>
    /\ parsed = NotParsed
    /\ inv = NoInv
    /\ remote = NoRemote
    /\ strict = Idle
    /\ legacy = Idle

Next ==
    \/ ArrangeDetect
    \/ ArrangeGenerate
    \/ StrictDetectStart
    \/ StrictDetectSettle
    \/ StrictGenerateStart
    \/ StrictGenerateSettle
    \/ LegacyDetectStart
    \/ LegacyDetectSettle
    \/ LegacyGenerateStart
    \/ LegacyGenerateSettle
    \/ Finish

Spec == Init /\ [][Next]_vars

(***************************************************************************)
(* getAIClient on its own: every key up to MaxKeyLen tokens.               *)
(***************************************************************************)
GetAIClient ==
    /\ client = NoOutcome
    /\ client' = getAIClient(key)
    /\ UNCHANGED <<key, dataUrl, parsed, inv, remote, strict, legacy>>

InitKey ==
    /\ key \in Keys
    /\ client = NoOutcome
    /\ dataUrl = <<>>
    /\ parsed = NotParsed
    /\ inv = NoInv
    /\ remote = NoRemote
    /\ strict = Idle
    /\ legacy = Idle

SpecKey == InitKey /\ [][GetAIClient]_vars

(***************************************************************************)
(* parseDataUrl on its own: every string up to MaxUrlLen tokens.           *)
(***************************************************************************)
ParseDataUrl ==
    /\ ~parsed.done
    /\ parsed' = [done |-> TRUE, result |-> parseDataUrl(dataUrl)]
    /\ UNCHANGED <<key, client, dataUrl, inv, remote, strict, legacy>>

InitDataUrl ==
    /\ key = UnsetKey
    /\ client = NoOutcome
    /\ dataUrl \in SeqsUpTo(UrlTokens, MaxUrlLen)
    /\ parsed = NotParsed
    /\ inv = NoInv
    /\ remote = NoRemote
    /\ strict = Idle
    /\ legacy = Idle

SpecDataUrl == InitDataUrl /\ [][ParseDataUrl]_vars

(***************************************************************************)
(* Vocabulary of the properties.                                           *)
(***************************************************************************)
MissingKey(k) == ~k.defined \/ k.s = <<>>
IsPlaceholder(k) == k.defined /\ k.s = <<Placeholder>>
ContainsPlaceholder(k) == k.defined /\ \E i \in 1..Len(k.s) : k.s[i] = Placeholder
IsUndefinedLiteral(k) == k.defined /\ k.s = <<"undefined">>
ValidKey(k) == ~MissingKey(k) /\ ~ContainsPlaceholder(k) /\ ~IsUndefinedLiteral(k)

StrictDone(fn) == inv.fn = fn /\ strict.pc = "done"

\* the reply text is the document d alone, or d inside a code fence that
\* opens the text (with or without the word json) and closes it
NamedShapes(b) == {Bare(b), FencedJson(b), FencedJsonTight(b), FencedPlain(b)}
ReplyCarries(d) ==
    /\ remote.ok
    /\ remote.hasText
    /\ remote.text \in NamedShapes(<<Doc(d)>>)
\* the documents the reply text holds
DocsInReply ==
    IF remote.ok /\ remote.hasText
    THEN {remote.text[i].v : i \in {j \in 1..Len(remote.text) : remote.text[j].t = "doc"}}
    ELSE {}

IsText(v) == v.k = "str" /\ v.s # ""
WellFormedItem(e) ==
    /\ e.k = "obj"
    /\ DOMAIN e.f = {"problem", "answer"}
    /\ IsText(e.f.problem)
    /\ IsText(e.f.answer)
IsItemsDoc(d) == d.k = "obj" /\ DOMAIN d.f = {"items"} /\ d.f.items.k = "arr"

(***************************************************************************)
(* C1.  As claimed: getAIClient fails with the configuration error exactly *)
(* for the keys that are missing, are the placeholder value or are the     *)
(* string "undefined", and returns a client for every other key.           *)
(* Refuted by a key that holds the placeholder among other text.           *)
(***************************************************************************)
C1_AsClaimed ==
    client # NoOutcome =>
        IF MissingKey(key) \/ IsPlaceholder(key) \/ IsUndefinedLiteral(key)
        THEN client = Throw(ConfigError)
        ELSE client = Return(ClientOf(key))

(***************************************************************************)
(* C1, amended.  getAIClient fails with the configuration error exactly    *)
(* for the keys that are missing (unset or empty), contain the placeholder *)
(* text anywhere, or are the string "undefined"; for every other key it    *)
(* returns a client holding that key.                                      *)
(***************************************************************************)
C1_KeyValidation ==
    client # NoOutcome =>
        IF MissingKey(key) \/ ContainsPlaceholder(key) \/ IsUndefinedLiteral(key)
        THEN client = Throw(ConfigError)
        ELSE client = Return(ClientOf(key))

C1_Witness ==
    /\ client = Throw(ConfigError)
    /\ ContainsPlaceholder(key)
    /\ ~IsPlaceholder(key)

(***************************************************************************)
(* C4.  With a missing or invalid key, detectSubject and                   *)
(* generateBingoItems both end by throwing the configuration error of      *)
(* getAIClient itself: no fallback SubjectContext, no generation error,    *)
(* and the invocation never gets as far as awaiting the remote call.       *)
(***************************************************************************)
C4_ConfigErrorSurfaces ==
    (/\ inv.fn \in {"detectSubject", "generateBingoItems"}
     /\ ~ValidKey(key)
     /\ strict.pc \notin {"idle", "called"})
        => strict.pc = "done" /\ strict.outcome = Throw(ConfigError)

C4_Witness ==
    /\ StrictDone("generateBingoItems")
    /\ IsPlaceholder(key)
    /\ strict.outcome = Throw(ConfigError)
    /\ strict.calls = 0

WellFormedSubject(d) ==
    /\ d.k = "obj"
    /\ DOMAIN d.f = {"subject", "isMath"}
    /\ d.f.subject.k = "str"
    /\ d.f.isMath.k = "bool"

(***************************************************************************)
(* C7.  With a valid key, when the remote reply is a well-formed           *)
(* {subject, isMath} document, bare or inside a code fence that opens the  *)
(* text (with or without the word json) and closes it, detectSubject       *)
(* returns that document: same subject, same isMath, and not the fallback  *)
(* in its place.                                                           *)
(***************************************************************************)
C7_DetectReturnsReply ==
    \A d \in DocsInReply :
        (/\ StrictDone("detectSubject")
         /\ ValidKey(key)
         /\ WellFormedSubject(d)
         /\ ReplyCarries(d))
            => /\ strict.outcome.kind = "return"
               /\ Get(strict.outcome.value, "subject") = d.f.subject
               /\ Get(strict.outcome.value, "isMath") = d.f.isMath

C7_Witness ==
    /\ StrictDone("detectSubject")
    /\ ValidKey(key)
    /\ remote = Resolves(FencedJson(<<Doc(MathContext)>>))
    /\ strict.outcome = Return(MathContext)
    /\ strict.outcome # Return(Fallback)

(***************************************************************************)
(* C5.  With a valid key, generateBingoItems called with count = n, on a   *)
(* reply (bare or fenced) whose items array holds exactly n well-formed    *)
(* {problem, answer} objects, returns exactly n BingoItems: the i-th       *)
(* (0-based) has id "item-i" and the problem and answer of the i-th reply  *)
(* element, so the order is kept, and the ids are pairwise distinct.       *)
(***************************************************************************)
C5_ItemsInOrder ==
    \A d \in DocsInReply :
        (/\ StrictDone("generateBingoItems")
         /\ ValidKey(key)
         /\ IsItemsDoc(d)
         /\ ReplyCarries(d)
         /\ \A j \in 1..Len(d.f.items.a) : WellFormedItem(d.f.items.a[j])
         /\ inv.count = Len(d.f.items.a))
            => /\ strict.outcome.kind = "return"
               /\ strict.outcome.value.k = "arr"
               /\ LET got == strict.outcome.value.a
                      sent == d.f.items.a
                  IN  /\ Len(got) = inv.count
                      /\ \A j \in 1..Len(got) :
                            /\ got[j].k = "obj"
                            /\ DOMAIN got[j].f = {"id", "problem", "answer"}
                            /\ got[j].f.id = Str("item-" \o ToString(j - 1))
                            /\ got[j].f.problem = sent[j].f.problem
                            /\ got[j].f.answer = sent[j].f.answer
                      /\ \A i, j \in 1..Len(got) :
                            i # j => got[i].f.id # got[j].f.id

C5_Witness ==
    /\ StrictDone("generateBingoItems")
    /\ ValidKey(key)
    /\ inv.count = 2
    /\ strict.outcome.kind = "return"
    /\ Len(strict.outcome.value.a) = 2
    /\ strict.outcome.value.a[1].f.id = Str("item-0")
    /\ strict.outcome.value.a[2].f.id = Str("item-1")
    /\ strict.outcome.value.a[1].f.problem = Str("3x3")
    /\ strict.outcome.value.a[2].f.problem = Str("2+2")

AllObjects(a) == \A j \in 1..Len(a) : a[j].k = "obj"
SomeFieldMissing(a) ==
    \E j \in 1..Len(a) : DOMAIN a[j].f # {"problem", "answer"}
Present(e, name) == name \in DOMAIN e.f
Falsy(v) == v \in {Str(""), Num(0), Null, Bool(FALSE), Undef}

(***************************************************************************)
(* C6.  As claimed: on a parsable reply whose array elements are objects,  *)
(* some lacking the problem or the answer field, generateBingoItems does   *)
(* not throw, keeps every element, puts "Fout" for each missing field and  *)
(* passes each present field through unchanged.                            *)
(* Refuted by an element whose field is present and empty.                 *)
(***************************************************************************)
C6_AsClaimed ==
    \A d \in DocsInReply :
        (/\ StrictDone("generateBingoItems")
         /\ ValidKey(key)
         /\ IsItemsDoc(d)
         /\ ReplyCarries(d)
         /\ AllObjects(d.f.items.a)
         /\ SomeFieldMissing(d.f.items.a))
            => /\ strict.outcome.kind = "return"
               /\ strict.outcome.value.k = "arr"
               /\ LET got == strict.outcome.value.a
                      sent == d.f.items.a
                  IN  /\ Len(got) = Len(sent)
                      /\ \A j \in 1..Len(got) : \A name \in {"problem", "answer"} :
                            got[j].f[name] = IF Present(sent[j], name)
                                             THEN sent[j].f[name]
                                             ELSE Sentinel

(***************************************************************************)
(* C6, amended.  On such a reply generateBingoItems does not throw and     *)
(* keeps every element; each field that is missing or falsy (an empty      *)
(* string, 0, null, false) is replaced by "Fout", and each field that is   *)
(* present with any other value is passed through unchanged.               *)
(***************************************************************************)
C6_MissingFieldsRepaired ==
    \A d \in DocsInReply :
        (/\ StrictDone("generateBingoItems")
         /\ ValidKey(key)
         /\ IsItemsDoc(d)
         /\ ReplyCarries(d)
         /\ AllObjects(d.f.items.a)
         /\ SomeFieldMissing(d.f.items.a))
            => /\ strict.outcome.kind = "return"
               /\ strict.outcome.value.k = "arr"
               /\ LET got == strict.outcome.value.a
                      sent == d.f.items.a
                  IN  /\ Len(got) = Len(sent)
                      /\ \A j \in 1..Len(got) : \A name \in {"problem", "answer"} :
                            got[j].f[name] =
                                IF Present(sent[j], name) /\ ~Falsy(sent[j].f[name])
                                THEN sent[j].f[name]
                                ELSE Sentinel

C6_Witness ==
    /\ StrictDone("generateBingoItems")
    /\ ValidKey(key)
    /\ remote = Resolves(Bare(<<Doc(Obj([items |-> Arr(<<Obj([problem |-> Str("5-1")]),
                                                         Obj([answer |-> Str("7")])>>)]))>>))
    /\ strict.outcome.kind = "return"
    /\ strict.outcome.value.a[1].f.answer = Sentinel
    /\ strict.outcome.value.a[1].f.problem = Str("5-1")
    /\ strict.outcome.value.a[2].f.problem = Sentinel

EmptyTopicNoImage == [fn |-> "detectSubject", topic |-> "", image |-> NoImage]
ReplyEmpty == remote.ok /\ (~remote.hasText \/ remote.text = <<>>)
ReplyUnparsable ==
    remote.ok /\ remote.hasText /\ ~JsonParses(cleanJSON(remote.text))
RemoteFailure == ~remote.ok \/ ReplyEmpty \/ ReplyUnparsable

(***************************************************************************)
(* C2.  With a valid key, detectSubject("", null) ends by returning        *)
(* exactly {subject: "Algemeen", isMath: false}, and never by throwing,    *)
(* whenever the remote call fails: it rejects (with whatever value), or    *)
(* its reply is empty or is not parsable JSON.                             *)
(***************************************************************************)
C2_DetectNeverThrows ==
    (/\ inv = EmptyTopicNoImage
     /\ ValidKey(key)
     /\ strict.pc = "done"
     /\ RemoteFailure)
        => strict.outcome = Return(Fallback)

\* any thrown error other than the configuration error
IsGenerationError(o) == o.kind = "throw" /\ o.error # ConfigError
NoItemList ==
    \/ ReplyEmpty
    \/ ReplyUnparsable
    \/ \E d \in DocsInReply : ~IsItemsDoc(d)

(***************************************************************************)
(* C3.  With a valid key, generateBingoItems fails with a generation       *)
(* error on every reply that is empty or cannot be parsed into an item     *)
(* list, and it never completes successfully with an empty list of items.  *)
(***************************************************************************)
C3_NoSilentEmptySuccess ==
    (/\ StrictDone("generateBingoItems")
     /\ ValidKey(key)
     /\ remote.ok)
        => /\ NoItemList => IsGenerationError(strict.outcome)
           /\ strict.outcome # Return(Arr(<<>>))

CallDiscipline ==
    /\ strict.calls <= 1
    /\ legacy.calls <= 1
    /\ strict.pc = "awaiting" => ValidKey(key) /\ strict.calls = 1
    /\ strict.pc = "done" => strict.calls = (IF ValidKey(key) THEN 1 ELSE 0)
    /\ legacy.pc \in {"awaiting", "done"} => legacy.calls = 1
    /\ strict.pc \in {"idle", "called"} => strict.calls = 0
    /\ legacy.pc \in {"idle", "called"} => legacy.calls = 0

EndsAsClaimed ==
    (/\ strict.pc = "done"
     /\ ValidKey(key)
     /\ RemoteFailure)
        => IF inv.fn = "detectSubject"
           THEN strict.outcome = Return(Fallback)
           ELSE strict.outcome.kind = "throw"

(***************************************************************************)
(* C9.  Every invocation issues at most one remote call and never retries: *)
(* exactly one when the key is valid, none when key validation fails, and  *)
(* once the call has failed or its reply is rejected the invocation has    *)
(* ended, with the fallback for detectSubject and with an error for        *)
(* generateBingoItems, without another call.                               *)
(***************************************************************************)
C9_SingleCallThenEnd == CallDiscipline /\ EndsAsClaimed

BothDone == strict.pc = "done" /\ legacy.pc = "done"
SameResult ==
    IF inv.fn = "detectSubject"
    THEN strict.outcome = legacy.outcome /\ strict.outcome.kind = "return"
    ELSE \/ strict.outcome.kind = "throw" /\ legacy.outcome.kind = "throw"
         \/ strict.outcome.kind = "return" /\ strict.outcome = legacy.outcome

NoOuterFence ==
    \/ ~remote.hasText
    \/ remote.text = <<>>
    \/ remote.text[1] # Fence /\ remote.text[Len(remote.text)] # Fence
MentionsApiKey ==
    /\ remote.hasText
    /\ \E i \in 1..Len(remote.text) : remote.text[i] = Junk(ApiKeyText)

SplitAt(s, k) ==
    /\ k \in 3..(Len(s) - 1)
    /\ s[1] = DataScheme
    /\ s[k] = Base64Mark
MimeAt(s, k) == SubSeq(s, 2, k - 1)
PayloadAt(s, k) == SubSeq(s, k + 1, Len(s))
OneLine(s) == \A i \in 1..Len(s) : s[i] # LineBreak

\* s = data:image/ word ;base64, rest, the word being n characters long
ImagePrefixOf(s, n) ==
    /\ n >= 1
    /\ Len(s) >= n + 3
    /\ s[1] = DataScheme
    /\ s[2] = ImageSlash
    /\ \A i \in 3..(n + 2) : s[i] = WordChar
    /\ s[n + 3] = Base64Mark
JpegFallback(s, r) ==
    /\ r.mimeType = <<ImageSlash, "jpeg">>
    /\ \A n \in 1..Len(s) : ImagePrefixOf(s, n) => r.data = SubSeq(s, n + 4, Len(s))
    /\ (\A n \in 1..Len(s) : ~ImagePrefixOf(s, n)) => r.data = s

(***************************************************************************)
(* C8.  As claimed: parseDataUrl returns {mimeType: mime, data: payload}   *)
(* on every string data:<mime>;base64,<payload> with non-empty mime and    *)
(* payload; on every other string it returns "image/jpeg" and the input    *)
(* without its leading data:image/<word>;base64, prefix, if it has one.    *)
(* Refuted by a payload that holds a line terminator.                      *)
(***************************************************************************)
C8_AsClaimed ==
    parsed.done =>
        /\ \A k \in 1..Len(dataUrl) :
              SplitAt(dataUrl, k) =>
                  parsed.result = [mimeType |-> MimeAt(dataUrl, k),
                                   data |-> PayloadAt(dataUrl, k)]
        /\ (\A k \in 1..Len(dataUrl) : ~SplitAt(dataUrl, k))
              => JpegFallback(dataUrl, parsed.result)

CleanSplitAt(s, k) ==
    /\ SplitAt(s, k)
    /\ OneLine(MimeAt(s, k))
    /\ OneLine(PayloadAt(s, k))
NoMarkInside(p) == \A i \in 1..(Len(p) - 1) : p[i] # Base64Mark

(***************************************************************************)
(* C8, amended.  parseDataUrl returns {mimeType: mime, data: payload} on   *)
(* every string data:<mime>;base64,<payload> whose mime and payload are    *)
(* non-empty and hold no line terminator and whose payload holds no        *)
(* ";base64," followed by further text; on every string that cannot be     *)
(* split into data:, a non-empty mime, ;base64, and a non-empty payload,   *)
(* both without line terminator, it returns "image/jpeg" and the input     *)
(* without its leading data:image/<word>;base64, prefix, if it has one.    *)
(***************************************************************************)
C8_ParseDataUrl ==
    parsed.done =>
        /\ \A k \in 1..Len(dataUrl) :
              (CleanSplitAt(dataUrl, k) /\ NoMarkInside(PayloadAt(dataUrl, k))) =>
                  parsed.result = [mimeType |-> MimeAt(dataUrl, k),
                                   data |-> PayloadAt(dataUrl, k)]
        /\ (\A k \in 1..Len(dataUrl) : ~CleanSplitAt(dataUrl, k))
              => JpegFallback(dataUrl, parsed.result)

C8_Witness ==
    /\ parsed.done
    /\ dataUrl = <<DataScheme, ImageSlash, WordChar, Base64Mark, WordChar>>
    /\ parsed.result = [mimeType |-> <<ImageSlash, WordChar>>, data |-> <<WordChar>>]

====
